---- MODULE Spec2Model ----
(***************************************************************************)
(* State-machine model of the pldb operational scripts:                    *)
(*   build.js          the build driver and its --serve placeholder server *)
(*   setup script      the remote deploy script (maintenance server, then  *)
(*                      the pldb systemd service)                          *)
(*   test-local.sh     download a pre-built artifact and serve it locally  *)
(* One behaviour is a succession of at most MaxRuns invocations of one of  *)
(* the scripts on the same host, so that the server processes and the port *)
(* an invocation leaves behind are what the next invocation starts from.   *)
(*                                                                         *)
(* Modelling conventions:                                                  *)
(*  - execSync blocks build.js: a command is one step that starts the      *)
(*    child and one step in which it returns (exit 0 or not).              *)
(*  - a server process is in `alive` from its spawn to its termination,    *)
(*    in `pending` until it has tried to listen, and is `bound` when it    *)
(*    holds the public port.  A port has at most one holder (the OS).      *)
(*  - kill() / kill $PID are taken to terminate the process they name.     *)
(*  - file-system calls other than the modelled commands do not throw.     *)
(***************************************************************************)
EXTENDS Integers, Sequences, FiniteSets, TLC

\* Number of successive invocations of the script in one behaviour.
MaxRuns == 2

\* Variant of SUBFOLDERS with lists declared ahead of creators.
SUBFOLDERS_ListsFirst ==
  <<"blog", "books", "concepts", "lists", "features", "creators", "pages">>

\* src/build.js:21  (build order matters: creators must be before lists)
SUBFOLDERS == <<"blog", "books", "concepts", "creators", "features", "lists", "pages">>

\* src/unnamed/part_000:167
MAX_RETRIES == 12

VARIABLES
  script,         \* which script is invoked: "build", "deploy" or "testlocal"
  run,            \* ordinal of the current invocation, 1..MaxRuns
  pc,             \* position of the current invocation
  exitCode,       \* -1 while it runs, else the exit status of the process
  shouldServe,    \* build.js: --serve / -s given
  serverProcess,  \* build.js: 0 = null, else the run that spawned the handle
  sigintHandler,  \* build.js: process.on('SIGINT', ...) has been registered
  child,          \* build.js: unit whose command execSync is waiting for
  i,              \* build.js: index into SUBFOLDERS of the step-5 loop
  invoked,        \* build.js: units whose step has been started, in order
  succeeded,      \* build.js: units whose step returned normally (its success line printed)
  failed,         \* build.js: units whose step threw (its error line printed)
  skipped,        \* build.js: subfolders for which existsSync was false
  indexHtml,      \* ROOT/index.html: "none", "maintenance" or "site"
  platform,       \* process.platform
  rootParsers,    \* node_modules/scroll-cli/parsers/root.parsers
  nestedParsers,  \* the nested copy of root.parsers
  alive,          \* server processes that exist
  pending,        \* server processes that have not tried to listen yet
  bound,          \* the process that holds the public port
  portBusy,       \* the public port was held when this invocation started
  maintDir,       \* deploy: "none", "exists", "removed"  ($MAINTENANCE_DIR)
  installDir,     \* deploy: /root/pldb: "absent", "old", "empty", "extracted", "ready"
  retryCount,     \* deploy: RETRY_COUNT
  out,            \* build.js: the closing lines written to the console, in order
  tl              \* test-local.sh: its shell state and what it has done so far

vars == <<script, run, pc, exitCode, shouldServe, serverProcess, sigintHandler,
          child, i, invoked, succeeded, failed, skipped, indexHtml, platform,
          rootParsers, nestedParsers, alive, pending, bound, portBusy,
          maintDir, installDir, retryCount, out, tl>>

buildVars == <<shouldServe, serverProcess, sigintHandler, child, i, invoked,
               succeeded, failed, skipped>>
patchVars == <<platform, rootParsers, nestedParsers>>
procVars == <<alive, pending, bound>>
deployVars == <<maintDir, installDir, retryCount>>

----------------------------------------------------------------------------
(* Processes and the port *)

NoProc == <<"none", 0>>
OtherProc == <<"other", 0>>
Pldb == <<"pldb", 0>>
Placeholder(n) == <<"placeholder", n>>
Maint(n) == <<"maint", n>>

Range(s) == {s[k] : k \in 1..Len(s)}
SubfolderSet == Range(SUBFOLDERS)

\* The process p is terminated: it no longer exists and frees the port if it held it.
Terminate(p) ==
  /\ alive' = alive \ {p}
  /\ pending' = pending \ {p}
  /\ bound' = IF bound = p THEN NoProc ELSE bound

\* The process p is created and will try to listen on the public port.
SpawnServer(p) ==
  /\ alive' = alive \cup {p}
  /\ pending' = pending \cup {p}
  /\ bound' = bound

----------------------------------------------------------------------------
(* build.js: patchScrollCliIfNeeded.  A root.parsers file is a record        *)
(* [exists, toks]; toks is the set of kinds of call the text contains:       *)
(*   "dirThis"   Utils.posix.dirname(this.filePath)                          *)
(*   "baseThis"  Utils.posix.basename(this.filePath)                         *)
(*   "dirOther"  Utils.posix.dirname( of another argument                    *)
(*   "pathDir"   require("path").dirname(this.filePath)                      *)
(*   "pathBase"  require("path").basename(this.filePath)                     *)

Tokens == {"dirThis", "baseThis", "dirOther", "pathDir", "pathBase"}
NoFile == [exists |-> FALSE, toks |-> {}]
File(toks) == [exists |-> TRUE, toks |-> toks]

\* content.replace(/Utils\.posix\.dirname\(this\.filePath\)/g, 'require("path").dirname(this.filePath)')
ReplaceDirname(toks) ==
  IF "dirThis" \in toks THEN (toks \ {"dirThis"}) \cup {"pathDir"} ELSE toks

\* content.replace(/Utils\.posix\.basename\(this\.filePath\)/g, 'require("path").basename(this.filePath)')
ReplaceBasename(toks) ==
  IF "baseThis" \in toks THEN (toks \ {"baseThis"}) \cup {"pathBase"} ELSE toks

\* content.includes('Utils.posix.dirname')
IncludesPosixDirname(toks) == "dirThis" \in toks \/ "dirOther" \in toks

\* Whether the call reaches the branch that rewrites the files.
PatchApplies(plat, root) ==
  plat = "win32" /\ root.exists /\ IncludesPosixDirname(root.toks)

PatchedRoot(plat, root) ==
  IF PatchApplies(plat, root)
    THEN File(ReplaceBasename(ReplaceDirname(root.toks)))
    ELSE root

\* Variant of PatchedNested that rewrites the nested copy on its own evidence,
\* whatever the root copy contains.
PatchedNestedAlways(plat, root, nested) ==
  IF plat = "win32" /\ nested.exists /\ IncludesPosixDirname(nested.toks)
    THEN File(ReplaceBasename(ReplaceDirname(nested.toks)))
    ELSE nested

PatchedNested(plat, root, nested) ==
  IF PatchApplies(plat, root) /\ nested.exists
    THEN File(ReplaceBasename(ReplaceDirname(nested.toks)))
    ELSE nested

----------------------------------------------------------------------------
(* build.js: main, before build() *)

\* if (shouldServe) writeMaintenancePage()
WriteMaintenancePage ==
  /\ script = "build" /\ pc = "main" /\ shouldServe
  /\ indexHtml' = "maintenance"
  /\ pc' = "spawn"
  /\ UNCHANGED <<tl, out, script, run, exitCode, buildVars, patchVars, procVars, portBusy, deployVars>>

\* serverProcess = startBackgroundServer(): spawn returns the handle at once;
\* nothing waits for, or looks at, the outcome of the child's listen.
StartBackgroundServer ==
  /\ script = "build" /\ pc = "spawn"
  /\ SpawnServer(Placeholder(run))
  /\ serverProcess' = run
  /\ pc' = "step1"
  /\ UNCHANGED <<tl, out, script, run, exitCode, shouldServe, sigintHandler, child, i, invoked,
                 succeeded, failed, skipped, indexHtml, patchVars, portBusy, deployVars>>

\* Variant of MainNoServe in which the placeholder is spawned without the flag.
MainNoServeSpawns ==
  /\ script = "build" /\ pc = "main" /\ ~shouldServe
  /\ SpawnServer(Placeholder(run))
  /\ serverProcess' = run
  /\ pc' = "step1"
  /\ UNCHANGED <<tl, out, script, run, exitCode, shouldServe, sigintHandler, child, i, invoked,
                 succeeded, failed, skipped, indexHtml, patchVars, portBusy, deployVars>>

\* Without --serve main goes straight to build().
MainNoServe ==
  /\ script = "build" /\ pc = "main" /\ ~shouldServe
  /\ pc' = "step1"
  /\ UNCHANGED <<tl, out, script, run, exitCode, buildVars, indexHtml, patchVars, procVars,
                 portBusy, deployVars>>

\* The spawned `npx serve .` tries to listen: it takes the port when it is free,
\* and otherwise does not serve on it.
PlaceholderListen ==
  /\ \E n \in 1..MaxRuns :
       /\ Placeholder(n) \in pending
       /\ IF bound = NoProc
            THEN /\ bound' = Placeholder(n)
                 /\ pending' = pending \ {Placeholder(n)}
                 /\ alive' = alive
            ELSE Terminate(Placeholder(n))
  /\ UNCHANGED <<tl, out, script, run, pc, exitCode, buildVars, indexHtml, patchVars, portBusy,
                 deployVars>>

----------------------------------------------------------------------------
(* build.js: build() *)

\* Step 1: run('node cli.js buildParsersFile') starts the command.
Step1Start ==
  /\ script = "build" /\ pc = "step1" /\ child = "none"
  /\ child' = "parsers"
  /\ invoked' = Append(invoked, "parsers")
  /\ UNCHANGED <<tl, out, script, run, pc, exitCode, shouldServe, serverProcess, sigintHandler, i,
                 succeeded, failed, skipped, indexHtml, patchVars, procVars, portBusy,
                 deployVars>>

\* run() rethrows when the command fails: build() rejects.
Step1Return ==
  /\ script = "build" /\ pc = "step1" /\ child = "parsers"
  /\ child' = "none"
  /\ \E ok \in BOOLEAN :
       IF ok
         THEN /\ succeeded' = succeeded \cup {"parsers"}
              /\ failed' = failed
              /\ out' = out
              /\ pc' = "step2"
         ELSE /\ failed' = failed \cup {"parsers"}
              /\ succeeded' = succeeded
              /\ out' = out
              /\ pc' = "rejected"
  /\ UNCHANGED <<tl, script, run, exitCode, shouldServe, serverProcess, sigintHandler, i,
                 invoked, skipped, indexHtml, patchVars, procVars, portBusy, deployVars>>

\* Step 2: patchScrollCliIfNeeded()
Step2Patch ==
  /\ script = "build" /\ pc = "step2"
  /\ rootParsers' = PatchedRoot(platform, rootParsers)
  /\ nestedParsers' = PatchedNested(platform, rootParsers, nestedParsers)
  /\ pc' = "step3"
  /\ UNCHANGED <<tl, out, script, run, exitCode, buildVars, indexHtml, platform, procVars,
                 portBusy, deployVars>>

\* Step 3: run(`node "${SCROLL_CLI}" build`) in ROOT starts the root generator.
Step3Start ==
  /\ script = "build" /\ pc = "step3" /\ child = "none"
  /\ child' = "root"
  /\ invoked' = Append(invoked, "root")
  /\ UNCHANGED <<tl, out, script, run, pc, exitCode, shouldServe, serverProcess, sigintHandler, i,
                 succeeded, failed, skipped, indexHtml, patchVars, procVars, portBusy,
                 deployVars>>

\* Variant of Step3Return in which run() does not rethrow: a failed root build
\* is logged and build() goes on to step 4.
Step3ReturnSwallowed ==
  /\ script = "build" /\ pc = "step3" /\ child = "root"
  /\ child' = "none"
  /\ \E ok \in BOOLEAN :
       IF ok
         THEN /\ succeeded' = succeeded \cup {"root"}
              /\ failed' = failed
              /\ indexHtml' = "site"
              /\ out' = out
         ELSE /\ failed' = failed \cup {"root"}
              /\ succeeded' = succeeded
              /\ indexHtml' = indexHtml
              /\ out' = out
  /\ pc' = "step4"
  /\ UNCHANGED <<tl, script, run, exitCode, shouldServe, serverProcess, sigintHandler, i,
                 invoked, skipped, patchVars, procVars, portBusy, deployVars>>

\* The root generator returns; a success has regenerated the site's pages in ROOT.
Step3Return ==
  /\ script = "build" /\ pc = "step3" /\ child = "root"
  /\ child' = "none"
  /\ \E ok \in BOOLEAN :
       IF ok
         THEN /\ succeeded' = succeeded \cup {"root"}
              /\ failed' = failed
              /\ indexHtml' = "site"
              /\ out' = out
              /\ pc' = "step4"
         ELSE /\ failed' = failed \cup {"root"}
              /\ succeeded' = succeeded
              /\ indexHtml' = indexHtml
              /\ out' = out
              /\ pc' = "rejected"
  /\ UNCHANGED <<tl, script, run, exitCode, shouldServe, serverProcess, sigintHandler, i,
                 invoked, skipped, patchVars, procVars, portBusy, deployVars>>

\* Variant of Step4Bridging with the bridging step wrapped in a try/catch like
\* the subfolders: a failure is recorded and the loop of step 5 starts anyway.
Step4BridgingSwallowed ==
  /\ script = "build" /\ pc = "step4"
  /\ invoked' = Append(invoked, "bridging")
  /\ \E ok \in BOOLEAN :
       IF ok
         THEN /\ succeeded' = succeeded \cup {"bridging"} /\ failed' = failed
              /\ out' = out
         ELSE /\ failed' = failed \cup {"bridging"} /\ succeeded' = succeeded
              /\ out' = out
  /\ pc' = "step5"
  /\ UNCHANGED <<tl, script, run, exitCode, shouldServe, serverProcess, sigintHandler, child,
                 i, skipped, indexHtml, patchVars, procVars, portBusy, deployVars>>

\* Step 4: require('./Computer.js') and Tables.writeAllFeaturePages(), in process;
\* either may throw, and nothing in build() catches it.
Step4Bridging ==
  /\ script = "build" /\ pc = "step4"
  /\ invoked' = Append(invoked, "bridging")
  /\ \E ok \in BOOLEAN :
       IF ok
         THEN /\ succeeded' = succeeded \cup {"bridging"}
              /\ failed' = failed
              /\ out' = out
              /\ pc' = "step5"
         ELSE /\ failed' = failed \cup {"bridging"}
              /\ succeeded' = succeeded
              /\ out' = out
              /\ pc' = "rejected"
  /\ UNCHANGED <<tl, script, run, exitCode, shouldServe, serverProcess, sigintHandler, child,
                 i, skipped, indexHtml, patchVars, procVars, portBusy, deployVars>>

\* Variant of Step5Start without the existsSync test: the generator of a missing
\* folder cannot be started, which counts as that folder's failure.
Step5StartMissingFails ==
  /\ script = "build" /\ pc = "step5" /\ child = "none" /\ i <= Len(SUBFOLDERS)
  /\ \E exists \in BOOLEAN :
       IF exists
         THEN /\ child' = SUBFOLDERS[i]
              /\ invoked' = Append(invoked, SUBFOLDERS[i])
              /\ out' = out
              /\ UNCHANGED <<i, failed>>
         ELSE /\ failed' = failed \cup {SUBFOLDERS[i]}
              /\ i' = i + 1
              /\ out' = out
              /\ UNCHANGED <<child, invoked>>
  /\ UNCHANGED <<tl, script, run, pc, exitCode, shouldServe, serverProcess, sigintHandler,
                 succeeded, skipped, indexHtml, patchVars, procVars, portBusy, deployVars>>

\* Step 5, one turn of the loop up to execSync: existsSync(folderPath), then
\* runQuiet starts the generator in the folder; a missing folder is passed over.
Step5Start ==
  /\ script = "build" /\ pc = "step5" /\ child = "none" /\ i <= Len(SUBFOLDERS)
  /\ \E exists \in BOOLEAN :
       IF exists
         THEN /\ child' = SUBFOLDERS[i]
              /\ invoked' = Append(invoked, SUBFOLDERS[i])
              /\ out' = out
              /\ UNCHANGED <<i, skipped>>
         ELSE /\ skipped' = skipped \cup {SUBFOLDERS[i]}
              /\ i' = i + 1
              /\ UNCHANGED <<child, invoked, out>>
  /\ UNCHANGED <<tl, script, run, pc, exitCode, shouldServe, serverProcess, sigintHandler,
                 succeeded, failed, indexHtml, patchVars, procVars, portBusy, deployVars>>

\* Variant of Step5Return without the try/catch around runQuiet: a failing
\* subfolder rejects build().
Step5ReturnRethrown ==
  /\ script = "build" /\ pc = "step5" /\ child \in SubfolderSet
  /\ child' = "none"
  /\ i' = i + 1
  /\ \E ok \in BOOLEAN :
       IF ok
         THEN /\ succeeded' = succeeded \cup {child} /\ failed' = failed /\ pc' = "step5"
              /\ out' = out
         ELSE /\ failed' = failed \cup {child} /\ succeeded' = succeeded /\ pc' = "rejected"
              /\ out' = out
  /\ UNCHANGED <<tl, script, run, exitCode, shouldServe, serverProcess, sigintHandler,
                 invoked, skipped, indexHtml, patchVars, procVars, portBusy, deployVars>>

\* The subfolder's generator returns; the try/catch around runQuiet swallows a failure.
Step5Return ==
  /\ script = "build" /\ pc = "step5" /\ child \in SubfolderSet
  /\ child' = "none"
  /\ i' = i + 1
  /\ \E ok \in BOOLEAN :
       IF ok
         THEN /\ succeeded' = succeeded \cup {child} /\ failed' = failed
              /\ out' = out
         ELSE /\ failed' = failed \cup {child} /\ succeeded' = succeeded
              /\ out' = out
  /\ pc' = "step5"
  /\ UNCHANGED <<tl, script, run, exitCode, shouldServe, serverProcess, sigintHandler,
                 invoked, skipped, indexHtml, patchVars, procVars, portBusy, deployVars>>

\* The loop is over: 'Build complete' is logged and build() resolves.
BuildComplete ==
  /\ script = "build" /\ pc = "step5" /\ child = "none" /\ i > Len(SUBFOLDERS)
  /\ pc' = "resolved"
  /\ out' = Append(out, <<"complete", "">>)
  /\ UNCHANGED <<tl, script, run, exitCode, buildVars, indexHtml, patchVars, procVars,
                 portBusy, deployVars>>

----------------------------------------------------------------------------
(* build.js: main, after build() *)

\* .then: with --serve the SIGINT handler is registered and the process stays;
\* without it nothing keeps the event loop alive and the process exits with 0.
ThenHandler ==
  /\ script = "build" /\ pc = "resolved"
  /\ IF shouldServe
       THEN /\ sigintHandler' = TRUE
            /\ out' = Append(out, <<"serving", "">>)
            /\ pc' = "waiting"
            /\ exitCode' = exitCode
       ELSE /\ sigintHandler' = sigintHandler
            /\ out' = Append(out, <<"hint", "">>)
            /\ pc' = "exited"
            /\ exitCode' = 0
  /\ UNCHANGED <<tl, script, run, shouldServe, serverProcess, child, i, invoked, succeeded,
                 failed, skipped, indexHtml, patchVars, procVars, portBusy, deployVars>>

\* Variant of CatchHandler that exits without killing the server.
CatchHandlerNoKill ==
  /\ script = "build" /\ pc = "rejected"
  /\ pc' = "exited"
  /\ exitCode' = 1
  /\ out' = Append(out, <<"build failed", "">>)
  /\ UNCHANGED <<tl, script, run, buildVars, indexHtml, patchVars, procVars, portBusy,
                 deployVars>>

\* .catch: if (serverProcess) serverProcess.kill(); process.exit(1)
CatchHandler ==
  /\ script = "build" /\ pc = "rejected"
  /\ IF serverProcess # 0
       THEN Terminate(Placeholder(serverProcess))
       ELSE UNCHANGED procVars
  /\ pc' = "exited"
  /\ exitCode' = 1
  /\ out' = Append(out, <<"build failed", "">>)
  /\ UNCHANGED <<tl, script, run, buildVars, indexHtml, patchVars, portBusy, deployVars>>

\* Variant of SigintHandled whose handler exits without killing the server.
SigintHandledNoKill ==
  /\ script = "build" /\ pc = "waiting" /\ sigintHandler
  /\ pc' = "exited"
  /\ exitCode' = 0
  /\ UNCHANGED <<tl, out, script, run, buildVars, indexHtml, patchVars, procVars, portBusy,
                 deployVars>>

\* SIGINT once the handler is registered: kill the server, process.exit(0).
SigintHandled ==
  /\ script = "build" /\ pc = "waiting" /\ sigintHandler
  /\ IF serverProcess # 0
       THEN Terminate(Placeholder(serverProcess))
       ELSE UNCHANGED procVars
  /\ pc' = "exited"
  /\ exitCode' = 0
  /\ UNCHANGED <<tl, out, script, run, buildVars, indexHtml, patchVars, portBusy, deployVars>>

\* SIGINT while no handler is registered (any point up to .then): the default
\* disposition ends the node process, status 130.  The spawned server shares the
\* fate only if the signal went to the whole process group (Ctrl+C in a
\* terminal); a signal sent to the node process alone leaves it running.
SigintDefault ==
  /\ script = "build" /\ pc # "exited" /\ ~sigintHandler
  /\ \E toGroup \in BOOLEAN :
       IF toGroup /\ serverProcess # 0
         THEN Terminate(Placeholder(serverProcess))
         ELSE UNCHANGED procVars
  /\ pc' = "exited"
  /\ exitCode' = 130
  /\ child' = "none"
  /\ UNCHANGED <<tl, out, script, run, shouldServe, serverProcess, sigintHandler, i, invoked,
                 succeeded, failed, skipped, indexHtml, patchVars, portBusy, deployVars>>

----------------------------------------------------------------------------
(* The remote deploy script.  Under `set -e` a failing command ends the     *)
(* script at once with a non-zero status; no trap runs.                     *)

\* A command failed under set -e (or the script ran exit 1): the script stops here.
DeployAbort(code) ==
  /\ pc' = "exited"
  /\ exitCode' = code

\* Local argument check, then ssh.
DeployArgs ==
  /\ script = "deploy" /\ pc = "d_args"
  /\ \E argsOk \in BOOLEAN :
       IF argsOk THEN pc' = "d_prepare" /\ exitCode' = exitCode ELSE DeployAbort(1)
  /\ UNCHANGED <<tl, out, script, run, buildVars, indexHtml, patchVars, procVars, portBusy,
                 deployVars>>

\* apt-get update, install curl, install Node.js when missing.
DeployPrepare ==
  /\ script = "deploy" /\ pc = "d_prepare"
  /\ \E ok \in BOOLEAN :
       IF ok THEN pc' = "d_stop" /\ exitCode' = exitCode ELSE DeployAbort(1)
  /\ UNCHANGED <<tl, out, script, run, buildVars, indexHtml, patchVars, procVars, portBusy,
                 deployVars>>

\* Variant of DeployStopService that leaves a running service running.
DeployStopServiceSkipped ==
  /\ script = "deploy" /\ pc = "d_stop"
  /\ pc' = "d_maint"
  /\ UNCHANGED <<tl, out, script, run, exitCode, buildVars, indexHtml, patchVars, procVars,
                 portBusy, deployVars>>

\* systemctl stop pldb 2>/dev/null || true
DeployStopService ==
  /\ script = "deploy" /\ pc = "d_stop"
  /\ Terminate(Pldb)
  /\ pc' = "d_maint"
  /\ UNCHANGED <<tl, out, script, run, exitCode, buildVars, indexHtml, patchVars, portBusy,
                 deployVars>>

\* MAINTENANCE_DIR=$(mktemp -d); write the page; npx serve ... -l 80 --single &; MAINT_PID=$!
DeployStartMaintenance ==
  /\ script = "deploy" /\ pc = "d_maint"
  /\ \E ok \in BOOLEAN :
       IF ok
         THEN /\ maintDir' = "exists"
              /\ SpawnServer(Maint(run))
              /\ pc' = "d_download"
              /\ exitCode' = exitCode
         ELSE /\ DeployAbort(1)
              /\ UNCHANGED <<maintDir, procVars>>
  /\ UNCHANGED <<tl, out, script, run, buildVars, indexHtml, patchVars, portBusy, installDir,
                 retryCount>>

\* The maintenance server tries to listen on port 80; with the port taken it exits.
MaintListen ==
  /\ \E n \in 1..MaxRuns :
       /\ Maint(n) \in pending
       /\ IF bound = NoProc
            THEN /\ bound' = Maint(n)
                 /\ pending' = pending \ {Maint(n)}
                 /\ alive' = alive
            ELSE Terminate(Maint(n))
  /\ UNCHANGED <<tl, out, script, run, pc, exitCode, buildVars, indexHtml, patchVars, portBusy,
                 deployVars>>

\* rm -rf "$INSTALL_DIR"; mkdir -p "$INSTALL_DIR"; curl -fSL "$RELEASE_URL" -o /tmp/site.tar.gz
DeployDownload ==
  /\ script = "deploy" /\ pc = "d_download"
  /\ installDir' = "empty"
  /\ \E ok \in BOOLEAN :
       IF ok THEN pc' = "d_extract" /\ exitCode' = exitCode ELSE DeployAbort(1)
  /\ UNCHANGED <<tl, out, script, run, buildVars, indexHtml, patchVars, procVars, portBusy,
                 maintDir, retryCount>>

\* tar xzf /tmp/site.tar.gz -C "$INSTALL_DIR"; rm /tmp/site.tar.gz
DeployExtract ==
  /\ script = "deploy" /\ pc = "d_extract"
  /\ \E ok \in BOOLEAN :
       IF ok
         THEN installDir' = "extracted" /\ pc' = "d_npm" /\ exitCode' = exitCode
         ELSE installDir' = installDir /\ DeployAbort(1)
  /\ UNCHANGED <<tl, out, script, run, buildVars, indexHtml, patchVars, procVars, portBusy,
                 maintDir, retryCount>>

\* Variant of DeployNpmInstall without set -e: the script goes on after a failed
\* npm install.
DeployNpmInstallUnchecked ==
  /\ script = "deploy" /\ pc = "d_npm"
  /\ \E ok \in BOOLEAN :
       /\ installDir' = IF ok THEN "ready" ELSE installDir
       /\ pc' = "d_stopmaint"
       /\ exitCode' = exitCode
  /\ UNCHANGED <<tl, out, script, run, buildVars, indexHtml, patchVars, procVars, portBusy,
                 maintDir, retryCount>>

\* cd "$INSTALL_DIR"; npm install --production
DeployNpmInstall ==
  /\ script = "deploy" /\ pc = "d_npm"
  /\ \E ok \in BOOLEAN :
       IF ok
         THEN installDir' = "ready" /\ pc' = "d_stopmaint" /\ exitCode' = exitCode
         ELSE installDir' = installDir /\ DeployAbort(1)
  /\ UNCHANGED <<tl, out, script, run, buildVars, indexHtml, patchVars, procVars, portBusy,
                 maintDir, retryCount>>

\* Variant of DeployStopMaintenance that removes the directory but neither
\* kills nor waits for the maintenance server.
DeployStopMaintenanceNoKill ==
  /\ script = "deploy" /\ pc = "d_stopmaint"
  /\ maintDir' = "removed"
  /\ pc' = "d_service"
  /\ UNCHANGED <<tl, out, script, run, exitCode, buildVars, indexHtml, patchVars, procVars,
                 portBusy, installDir, retryCount>>

\* kill $MAINT_PID || true; wait $MAINT_PID || true; rm -rf "$MAINTENANCE_DIR"
DeployStopMaintenance ==
  /\ script = "deploy" /\ pc = "d_stopmaint"
  /\ Terminate(Maint(run))
  /\ maintDir' = "removed"
  /\ pc' = "d_service"
  /\ UNCHANGED <<tl, out, script, run, exitCode, buildVars, indexHtml, patchVars, portBusy,
                 installDir, retryCount>>

\* Write pldb.service; systemctl daemon-reload; enable; restart pldb.  restart
\* returns once the unit's process (npx serve . -l 80) has been started.
DeployStartService ==
  /\ script = "deploy" /\ pc = "d_service"
  /\ \E ok \in BOOLEAN :
       IF ok
         THEN /\ alive' = alive \cup {Pldb}
              /\ pending' = pending \cup {Pldb}
              /\ bound' = IF bound = Pldb THEN NoProc ELSE bound
              /\ pc' = "d_poll"
              /\ exitCode' = exitCode
         ELSE /\ DeployAbort(1)
              /\ UNCHANGED procVars
  /\ UNCHANGED <<tl, out, script, run, buildVars, indexHtml, patchVars, portBusy, deployVars>>

\* The service's process tries to listen on port 80.  While the port is taken
\* it fails and systemd starts it again (Restart=on-failure): it stays pending.
PldbListen ==
  /\ Pldb \in pending
  /\ bound = NoProc
  /\ bound' = Pldb
  /\ pending' = pending \ {Pldb}
  /\ alive' = alive
  /\ UNCHANGED <<tl, out, script, run, pc, exitCode, buildVars, indexHtml, patchVars, portBusy,
                 deployVars>>

\* One turn of the wait loop: sleep 5; curl localhost:80; 200 breaks out of the
\* loop, anything else counts a retry.  Only a process holding the port answers.
DeployPoll ==
  /\ script = "deploy" /\ pc = "d_poll" /\ retryCount < MAX_RETRIES
  /\ \E got200 \in (IF bound = NoProc THEN {FALSE} ELSE BOOLEAN) :
       IF got200
         THEN pc' = "d_check" /\ retryCount' = retryCount
         ELSE pc' = pc /\ retryCount' = retryCount + 1
  /\ UNCHANGED <<tl, out, script, run, exitCode, buildVars, indexHtml, patchVars, procVars,
                 portBusy, maintDir, installDir>>

\* The loop condition fails: RETRY_COUNT has reached MAX_RETRIES.
DeployPollExhausted ==
  /\ script = "deploy" /\ pc = "d_poll" /\ ~(retryCount < MAX_RETRIES)
  /\ pc' = "d_check"
  /\ UNCHANGED <<tl, out, script, run, exitCode, buildVars, indexHtml, patchVars, procVars,
                 portBusy, deployVars>>

\* if [ $RETRY_COUNT -eq $MAX_RETRIES ]: report and exit 1.  `systemctl status`
\* in that branch runs under set -e: it returns 0 for an active unit, and 3 for
\* one that is not (a service that has not come up is either still starting,
\* which is active, or waiting for its restart after a crash, which is not).
DeployCheck ==
  /\ script = "deploy" /\ pc = "d_check"
  /\ IF retryCount = MAX_RETRIES
       THEN \E code \in (IF Pldb \in pending THEN {1, 3} ELSE {1}) : DeployAbort(code)
       ELSE pc' = "d_firewall" /\ exitCode' = exitCode
  /\ UNCHANGED <<tl, out, script, run, buildVars, indexHtml, patchVars, procVars, portBusy,
                 deployVars>>

\* if ufw is active: ufw allow 80/tcp; then the status report; the ssh session ends.
DeployFirewall ==
  /\ script = "deploy" /\ pc = "d_firewall"
  /\ \E active \in BOOLEAN, ok \in BOOLEAN :
       IF active /\ ~ok THEN DeployAbort(1) ELSE pc' = "d_local" /\ exitCode' = exitCode
  /\ UNCHANGED <<tl, out, script, run, buildVars, indexHtml, patchVars, procVars, portBusy,
                 deployVars>>

\* Back on the local host: HTTP_STATUS=$(curl ...) under set -e, then the report.
DeployLocalTest ==
  /\ script = "deploy" /\ pc = "d_local"
  /\ \E curlOk \in BOOLEAN : DeployAbort(IF curlOk THEN 0 ELSE 7)
  /\ UNCHANGED <<tl, out, script, run, buildVars, indexHtml, patchVars, procVars, portBusy,
                 deployVars>>

----------------------------------------------------------------------------
(* test-local.sh.  tl records what the shell has seen and done:             *)
(*   args   "unparsed", "ok", "unknown" (the * case), "missing value"       *)
(*   pr     --pr was given (PR_NUMBER is not empty)                         *)
(*   repo   "unchecked", "set", "empty"       ($REPO at the -z test)        *)
(*   runId  "unqueried", "found", "none"      ($RUN_ID empty or "null")     *)
(*   removed / downloaded / extracted / installed / serving: a directory    *)
(*   under /tmp/pldb-local-test has been removed, the artifact downloaded,  *)
(*   the tarball extracted, npm install done, npx serve started.            *)

TLFresh ==
  [args |-> "unparsed", pr |-> FALSE, repo |-> "unchecked", runId |-> "unqueried",
   removed |-> FALSE, downloaded |-> FALSE, extracted |-> FALSE,
   installed |-> FALSE, serving |-> FALSE]

\* The script stops with the given status (exit 1, or a failed command under set -e).
TLExit(code) ==
  /\ pc' = "exited"
  /\ exitCode' = code

\* The while/case loop over the arguments: an argument that is none of --pr,
\* --repo, --port prints the usage and exits 1; `shift 2` after an option that
\* came without its value fails under set -e.
TLParseArgs ==
  /\ script = "testlocal" /\ pc = "t_args"
  /\ \E a \in {"ok", "unknown", "missing value"}, withPr \in BOOLEAN :
       /\ tl' = [tl EXCEPT !.args = a, !.pr = withPr /\ a = "ok"]
       /\ IF a = "ok" THEN pc' = "t_repo" /\ exitCode' = exitCode ELSE TLExit(1)
  /\ UNCHANGED <<out, script, run, buildVars, indexHtml, patchVars, procVars, portBusy,
                 deployVars>>

\* if [ -z "$REPO" ]: exit 1
TLRepoCheck ==
  /\ script = "testlocal" /\ pc = "t_repo"
  /\ \E r \in {"set", "empty"} :
       /\ tl' = [tl EXCEPT !.repo = r]
       /\ IF r = "set" THEN pc' = "t_workdir" /\ exitCode' = exitCode ELSE TLExit(1)
  /\ UNCHANGED <<out, script, run, buildVars, indexHtml, patchVars, procVars, portBusy,
                 deployVars>>

\* mkdir -p "$WORK_DIR"
TLWorkDir ==
  /\ script = "testlocal" /\ pc = "t_workdir"
  /\ \E ok \in BOOLEAN :
       IF ok THEN pc' = "t_select" /\ exitCode' = exitCode ELSE TLExit(1)
  /\ UNCHANGED <<tl, out, script, run, buildVars, indexHtml, patchVars, procVars,
                 portBusy, deployVars>>

\* Variant of TLSelectArtifact without the test of RUN_ID: the script goes on to
\* the download with no run to download from.
TLSelectArtifactUnchecked ==
  /\ script = "testlocal" /\ pc = "t_select"
  /\ IF tl.pr
       THEN \E ghOk \in BOOLEAN, r \in {"found", "none"} :
              IF ~ghOk
                THEN tl' = tl /\ \E code \in {1, 4} : TLExit(code)
                ELSE /\ tl' = [tl EXCEPT !.runId = r]
                     /\ pc' = "t_download" /\ exitCode' = exitCode
       ELSE tl' = tl /\ pc' = "t_download" /\ exitCode' = exitCode
  /\ UNCHANGED <<out, script, run, buildVars, indexHtml, patchVars, procVars, portBusy,
                 deployVars>>

\* With --pr: gh pr view, gh run list, then the test of RUN_ID; without: nothing
\* to select.  Either gh command may fail under set -e, with gh's own status
\* (1 for an error, 4 when authentication is required).
TLSelectArtifact ==
  /\ script = "testlocal" /\ pc = "t_select"
  /\ IF tl.pr
       THEN \E ghOk \in BOOLEAN, r \in {"found", "none"} :
              IF ~ghOk
                THEN tl' = tl /\ \E code \in {1, 4} : TLExit(code)
                ELSE /\ tl' = [tl EXCEPT !.runId = r]
                     /\ IF r = "found"
                          THEN pc' = "t_download" /\ exitCode' = exitCode
                          ELSE TLExit(1)
       ELSE tl' = tl /\ pc' = "t_download" /\ exitCode' = exitCode
  /\ UNCHANGED <<out, script, run, buildVars, indexHtml, patchVars, procVars, portBusy,
                 deployVars>>

\* rm -rf "$DOWNLOAD_DIR" && mkdir -p "$DOWNLOAD_DIR"; gh run download / gh release download
TLDownload ==
  /\ script = "testlocal" /\ pc = "t_download"
  /\ \E ok \in BOOLEAN :
       /\ tl' = [tl EXCEPT !.removed = TRUE, !.downloaded = ok]
       /\ IF ok THEN pc' = "t_extract" /\ exitCode' = exitCode ELSE TLExit(1)
  /\ UNCHANGED <<out, script, run, buildVars, indexHtml, patchVars, procVars, portBusy,
                 deployVars>>

\* rm -rf "$SERVE_DIR" && mkdir -p "$SERVE_DIR"; tar xzf "$TARBALL" -C "$SERVE_DIR"
TLExtract ==
  /\ script = "testlocal" /\ pc = "t_extract"
  /\ \E ok \in BOOLEAN :
       /\ tl' = [tl EXCEPT !.removed = TRUE, !.extracted = ok]
       /\ IF ok THEN pc' = "t_npm" /\ exitCode' = exitCode ELSE TLExit(1)
  /\ UNCHANGED <<out, script, run, buildVars, indexHtml, patchVars, procVars, portBusy,
                 deployVars>>

\* npm install --prefix "$SERVE_DIR"
TLNpmInstall ==
  /\ script = "testlocal" /\ pc = "t_npm"
  /\ \E ok \in BOOLEAN :
       /\ tl' = [tl EXCEPT !.installed = ok]
       /\ IF ok THEN pc' = "t_serve" /\ exitCode' = exitCode ELSE TLExit(1)
  /\ UNCHANGED <<out, script, run, buildVars, indexHtml, patchVars, procVars, portBusy,
                 deployVars>>

\* npx serve "$SERVE_DIR" -l "$PORT": the script's last command, in the foreground.
TLServe ==
  /\ script = "testlocal" /\ pc = "t_serve"
  /\ tl' = [tl EXCEPT !.serving = TRUE]
  /\ pc' = "t_serving"
  /\ UNCHANGED <<out, script, run, exitCode, buildVars, indexHtml, patchVars, procVars,
                 portBusy, deployVars>>

\* The server ends (Ctrl+C, or it could not start): the script ends with its status.
TLServeEnds ==
  /\ script = "testlocal" /\ pc = "t_serving"
  /\ \E code \in {0, 1, 130} : TLExit(code)
  /\ UNCHANGED <<tl, out, script, run, buildVars, indexHtml, patchVars, procVars,
                 portBusy, deployVars>>

----------------------------------------------------------------------------
(* Invocations *)

\* The states root.parsers and the platform are found in by a build: scroll-cli
\* as installed, on a platform that is not patched and on one that is.  (Every
\* other content of the two files is covered by SpecPatch below.)
PatchWorlds ==
  { <<"linux", File({"dirThis", "baseThis"}), File({"dirThis", "baseThis"})>>,
    <<"win32", File({"dirThis", "baseThis"}), File({"dirThis", "baseThis"})>> }

EntryPoint(s) ==
  IF s = "build" THEN "main" ELSE IF s = "deploy" THEN "d_args" ELSE "t_args"

\* A fresh process of the script: module-level state of build.js, shell variables.
FreshRun ==
  /\ exitCode' = -1
  /\ serverProcess' = 0
  /\ sigintHandler' = FALSE
  /\ child' = "none"
  /\ i' = 1
  /\ invoked' = <<>>
  /\ succeeded' = {}
  /\ failed' = {}
  /\ skipped' = {}
  /\ retryCount' = 0
  /\ out' = <<>>
  /\ tl' = TLFresh

Init ==
  /\ script \in {"build", "deploy", "testlocal"}
  /\ run = 1
  /\ pc = EntryPoint(script)
  /\ exitCode = -1
  /\ shouldServe \in (IF script = "build" THEN BOOLEAN ELSE {FALSE})
  /\ serverProcess = 0
  /\ sigintHandler = FALSE
  /\ child = "none"
  /\ i = 1
  /\ invoked = <<>>
  /\ succeeded = {}
  /\ failed = {}
  /\ skipped = {}
  /\ indexHtml = "none"
  /\ \E w \in (IF script = "build" THEN PatchWorlds
                                  ELSE {<<"linux", NoFile, NoFile>>}) :
       platform = w[1] /\ rootParsers = w[2] /\ nestedParsers = w[3]
  /\ pending = {}
  /\ \E b \in (IF script = "build" THEN {NoProc, OtherProc}
                  ELSE IF script = "deploy" THEN {NoProc, OtherProc, Pldb}
                                            ELSE {NoProc}) :
       /\ bound = b
       /\ alive = IF b = Pldb THEN {Pldb} ELSE {}
       /\ portBusy = (b # NoProc)
       /\ installDir = IF b = Pldb THEN "old" ELSE "absent"
  /\ maintDir = "none"
  /\ retryCount = 0
  /\ out = <<>>
  /\ tl = TLFresh

\* The operator invokes the script again after the previous invocation has ended.
NextRun ==
  /\ pc = "exited" /\ run < MaxRuns
  /\ run' = run + 1
  /\ pc' = EntryPoint(script)
  /\ shouldServe' \in (IF script = "build" THEN BOOLEAN ELSE {FALSE})
  /\ portBusy' = (bound # NoProc)
  /\ maintDir' = "none"
  /\ FreshRun
  /\ UNCHANGED <<script, indexHtml, patchVars, procVars, installDir>>

Next ==
  \/ WriteMaintenancePage \/ StartBackgroundServer \/ MainNoServe \/ PlaceholderListen
  \/ Step1Start \/ Step1Return \/ Step2Patch \/ Step3Start \/ Step3Return
  \/ Step4Bridging \/ Step5Start \/ Step5Return \/ BuildComplete
  \/ ThenHandler \/ CatchHandler \/ SigintHandled \/ SigintDefault
  \/ DeployArgs \/ DeployPrepare \/ DeployStopService \/ DeployStartMaintenance
  \/ MaintListen \/ DeployDownload \/ DeployExtract \/ DeployNpmInstall
  \/ DeployStopMaintenance \/ DeployStartService \/ PldbListen
  \/ DeployPoll \/ DeployPollExhausted \/ DeployCheck \/ DeployFirewall
  \/ DeployLocalTest
  \/ TLParseArgs \/ TLRepoCheck \/ TLWorkDir \/ TLSelectArtifact \/ TLDownload
  \/ TLExtract \/ TLNpmInstall \/ TLServe \/ TLServeEnds
  \/ NextRun

Spec == Init /\ [][Next]_vars

----------------------------------------------------------------------------
(* Properties *)

Started(u) == u \in Range(invoked)
Completed(u) == u \in succeeded \cup failed
SubfoldersStarted == Range(invoked) \cap SubfolderSet
Exited == pc = "exited"

\* C1: when the root generator (step 3) fails, the bridging step never runs, no
\* subfolder generator is ever invoked, control is in the rejection path, and
\* the process cannot end with status 0.
C1_RootFailureIsFatal ==
  (script = "build" /\ "root" \in failed) =>
    /\ ~Started("bridging")
    /\ SubfoldersStarted = {}
    /\ pc \in {"rejected", "exited"}
    /\ (Exited => exitCode # 0)

C1_Witness ==
  /\ script = "build" /\ "root" \in failed
  /\ Exited /\ exitCode = 1

\* C2: once root and bridging have succeeded, failing subfolder generators never
\* reject the build: every subfolder that exists is still invoked, the run gets
\* to 'Build complete', and unless a signal ends it the process exits with 0,
\* a status it never has after a root or bridging failure.
C2_SubfolderFailureIsolated ==
  script = "build" =>
    /\ ("bridging" \in succeeded =>
          /\ pc # "rejected"
          /\ (Exited => exitCode \in {0, 130}))
    /\ ((pc \in {"resolved", "waiting"} \/ (Exited /\ exitCode = 0)) =>
          /\ {"root", "bridging"} \subseteq succeeded
          /\ SubfoldersStarted = SubfolderSet \ skipped
          /\ SubfoldersStarted \subseteq succeeded \cup failed)
    /\ ((Exited /\ ~shouldServe /\ "bridging" \in succeeded /\ exitCode # 130) =>
          exitCode = 0)

C2_Witness ==
  /\ script = "build" /\ ~shouldServe
  /\ Exited /\ exitCode = 0
  /\ failed = {"blog", "creators"}
  /\ skipped = {"books"}
  /\ {"concepts", "features", "lists", "pages"} \subseteq succeeded

\* C3: whenever both generators are invoked, creators is invoked before lists,
\* and creators has returned (successfully or not) by the time lists starts.
C3_CreatorsBeforeLists ==
  script = "build" =>
    /\ \A j, k \in 1..Len(invoked) :
         (invoked[j] = "creators" /\ invoked[k] = "lists") => j < k
    /\ (Started("lists") /\ Started("creators")) => Completed("creators")
    /\ child = "lists" => "creators" \in succeeded \cup failed \cup skipped

C3_Witness ==
  /\ script = "build"
  /\ child = "lists"
  /\ "creators" \in failed
  /\ "features" \in failed

\* C4: the bridging step starts only after the root build has succeeded, every
\* subfolder generator starts only after the bridging step has succeeded, and a
\* failed bridging step leaves no subfolder invoked and no exit with status 0.
C4_BridgingOrderedAndFatal ==
  script = "build" =>
    /\ (Started("bridging") => "root" \in succeeded)
    /\ (SubfoldersStarted # {} => "bridging" \in succeeded)
    /\ ("bridging" \in failed =>
          /\ SubfoldersStarted = {}
          /\ pc \in {"rejected", "exited"}
          /\ (Exited => exitCode # 0))

C4_Witness ==
  /\ script = "build" /\ "bridging" \in failed
  /\ "root" \in succeeded
  /\ Exited /\ exitCode = 1

\* C5: if the placeholder port is already held when build.js --serve starts,
\* no build step is executed and the process does not end with status 0.
C5_BusyPortFailsFast ==
  (script = "build" /\ shouldServe /\ portBusy) =>
    /\ invoked = <<>>
    /\ (Exited => exitCode # 0)

C7_PlaceholderSurvivesFatalFailure ==
  [][(/\ script = "build" /\ pc = "rejected"
      /\ failed \cap {"root", "bridging"} # {}
      /\ pc' = "exited" /\ exitCode' = 1
      /\ bound = Placeholder(run)) => Placeholder(run) \in alive']_vars

\* C7 (amended): a build that ends through the catch handler (status 1) had a
\* fatal step fail, and the placeholder server it spawned is no longer running.
C7_FatalFailureKillsPlaceholder ==
  (script = "build" /\ Exited /\ exitCode = 1) =>
    /\ failed \cap {"parsers", "root", "bridging"} # {}
    /\ Placeholder(run) \notin alive

C7_Witness ==
  /\ script = "build" /\ shouldServe /\ ~portBusy
  /\ Exited /\ exitCode = 1
  /\ serverProcess = run
  /\ "bridging" \in failed
  /\ bound = NoProc

\* C8: no terminal state of build.js --serve has the process exited and the
\* placeholder server it spawned still holding the port.
C8_NoPlaceholderAfterExit ==
  (script = "build" /\ shouldServe /\ Exited /\ serverProcess # 0) =>
    bound # Placeholder(serverProcess)

C10_ServerDestroyedOnEveryExit ==
  (Exited /\ exitCode # 130) =>
    /\ Placeholder(run) \notin alive
    /\ Maint(run) \notin alive

\* The order build() declares for its steps.
StepOrder == <<"parsers", "root", "bridging">> \o SUBFOLDERS

\* The steps started so far were started in that order, none of them twice:
\* invoked is what is left of StepOrder when the steps not started are removed.
InDeclaredOrder ==
  LET started == Range(invoked)
  IN  invoked = SelectSeq(StepOrder, LAMBDA u : u \in started)

\* The lines the driver writes from 'Build complete' on: its closing report.
FinalReport ==
  SelectSeq(out, LAMBDA l : l[1] \in {"complete", "serving", "hint"})

\* The units a sequence of console lines names.
NamedIn(lines) == {lines[k][2] : k \in 1..Len(lines)} \ {""}

\* C11: at the end of a completed run every subfolder that exists has had its
\* result line, a success or an error, in declared order; the run is reported
\* complete; and the closing report names exactly the subfolders whose
\* generator failed.
C11_FinalSummaryNamesFailures ==
  (script = "build" /\ (pc \in {"resolved", "waiting"} \/ (Exited /\ exitCode = 0))) =>
    /\ Len(FinalReport) >= 1 /\ FinalReport[1] = <<"complete", "">>
    /\ (succeeded \cup failed) \cap SubfolderSet = SubfolderSet \ skipped
    /\ succeeded \cap failed = {}
    /\ InDeclaredOrder
    /\ NamedIn(FinalReport) = failed \cap SubfolderSet

\* The build steps main is in the middle of.
InBuildSteps == pc \in {"step1", "step2", "step3", "step4", "step5"}

C13_RootFirstUnconditionally ==
  script = "build" =>
    /\ (invoked # <<>> => invoked[1] = "root")
    /\ ((Exited /\ exitCode = 1) => Started("root"))
    /\ InDeclaredOrder
    /\ skipped \cap failed = {}

\* C13 (amended): build() starts with `node cli.js buildParsersFile`, and the root
\* generator runs only after that step has succeeded; it is the first generator
\* started.  Steps are started in the order parsers, root, bridging, subfolders
\* as declared (each step started later than the one before it in that order,
\* hence none twice) and each existing subfolder exactly once in a
\* completed build; a missing subfolder is skipped, is neither started nor
\* counted as failed, and the subfolders after it are still built.
C13_StepOrder ==
  script = "build" =>
    LET started == Range(invoked)
    IN  /\ invoked = SelectSeq(StepOrder, LAMBDA u : u \in started)
        /\ (invoked # <<>> => invoked[1] = "parsers")
        /\ ("root" \in started => "parsers" \in succeeded)
        /\ ("bridging" \in started => "root" \in started)
        /\ (started \cap SubfolderSet # {} => "bridging" \in started)
        /\ skipped \subseteq SubfolderSet
        /\ skipped \cap failed = {}
        /\ skipped \cap started = {}
        /\ failed \subseteq started
        /\ (pc = "step5" =>
              /\ i \in 1..(Len(SUBFOLDERS) + 1)
              /\ (started \cap SubfolderSet) \cup skipped =
                   {SUBFOLDERS[k] : k \in 1..(IF child = "none" THEN i - 1 ELSE i)})
        /\ (pc \in {"resolved", "waiting"} =>
              started \cap SubfolderSet = SubfolderSet \ skipped)

C13_Witness ==
  /\ script = "build"
  /\ pc = "resolved"
  /\ skipped = {"creators", "features"}
  /\ failed = {}
  /\ Len(invoked) = 3 + Len(SUBFOLDERS) - 2

\* C14 (as stated): the polling loop makes at most MAX_RETRIES polls and goes on
\* to the firewall and status steps only after a poll that returned 200, the
\* last one included; and when no poll returned 200 the script exits with 1.
C14_PollingExitStatus ==
  script = "deploy" =>
    /\ retryCount \in 0..MAX_RETRIES
    /\ (pc \in {"d_firewall", "d_local"} =>
          /\ retryCount < MAX_RETRIES
          /\ bound # NoProc)
    /\ ((Exited /\ retryCount = MAX_RETRIES) => exitCode = 1)

\* What holds of the loop itself: never more than MAX_RETRIES polls, the steps
\* after it reached only after a 200, and a non-zero exit when all polls failed.
C14_LoopBounded ==
  script = "deploy" =>
    /\ retryCount \in 0..MAX_RETRIES
    /\ (pc \in {"d_firewall", "d_local"} =>
          /\ retryCount < MAX_RETRIES
          /\ bound # NoProc)
    /\ ((Exited /\ retryCount = MAX_RETRIES) => exitCode \in {1, 3})

C16_ServiceDownWhileInstalling ==
  script = "deploy" =>
    /\ (pc \in {"d_maint", "d_download", "d_extract", "d_npm", "d_stopmaint", "d_service"} =>
          Pldb \notin alive)
    /\ (installDir \in {"empty", "downloaded", "extracted"} => Pldb \notin alive)
    /\ (Pldb \in alive => installDir \in {"old", "ready"})
    /\ (pc \in {"d_poll", "d_check", "d_firewall", "d_local"} => installDir = "ready")

C16_Witness ==
  /\ script = "deploy"
  /\ Exited /\ exitCode = 1
  /\ installDir = "extracted"
  /\ run = 1 /\ portBusy
  /\ Pldb \notin alive
  /\ bound = Maint(1)

\* C17: test-local.sh has removed nothing, downloaded nothing and started no
\* server when it has met an unknown argument, an empty REPO or, with --pr, no
\* successful run, and it then ends with status 1; it removes or downloads only
\* after all three validations, and starts the server only after the download,
\* the extraction and npm install have succeeded.
C17_ValidatesBeforeActing ==
  script = "testlocal" =>
    /\ ((tl.args \in {"unknown", "missing value"} \/ tl.repo = "empty" \/ tl.runId = "none") =>
          /\ ~tl.removed /\ ~tl.downloaded /\ ~tl.extracted /\ ~tl.installed /\ ~tl.serving
          /\ Exited /\ exitCode = 1)
    /\ (tl.removed =>
          /\ tl.args = "ok" /\ tl.repo = "set"
          /\ (tl.pr => tl.runId = "found"))
    /\ (tl.serving => tl.downloaded /\ tl.extracted /\ tl.installed)
    /\ (tl.installed => tl.extracted)
    /\ (tl.extracted => tl.downloaded)

C17_Witness ==
  /\ script = "testlocal"
  /\ tl.pr /\ tl.runId = "none"
  /\ Exited /\ exitCode = 1
  /\ ~tl.removed

----------------------------------------------------------------------------
(* patchScrollCliIfNeeded on its own: called twice in a row on every         *)
(* platform and every content of the two root.parsers files.                 *)

\* The contents a root.parsers file can have, the missing file included.
ParsersFiles == {NoFile} \cup {File(t) : t \in SUBSET Tokens}

InitPatch ==
  /\ script = "patch"
  /\ run = 1
  /\ pc = "p_first"
  /\ platform \in {"linux", "win32"}
  /\ rootParsers \in ParsersFiles
  /\ nestedParsers \in ParsersFiles
  /\ exitCode = -1
  /\ shouldServe = FALSE
  /\ serverProcess = 0
  /\ sigintHandler = FALSE
  /\ child = "none"
  /\ i = 1
  /\ invoked = <<>>
  /\ succeeded = {}
  /\ failed = {}
  /\ skipped = {}
  /\ indexHtml = "none"
  /\ alive = {}
  /\ pending = {}
  /\ bound = NoProc
  /\ portBusy = FALSE
  /\ maintDir = "none"
  /\ installDir = "absent"
  /\ retryCount = 0
  /\ out = <<>>
  /\ tl = TLFresh

\* One call of patchScrollCliIfNeeded().
PatchCall ==
  /\ script = "patch" /\ pc \in {"p_first", "p_second"}
  /\ rootParsers' = PatchedRoot(platform, rootParsers)
  /\ nestedParsers' = PatchedNested(platform, rootParsers, nestedParsers)
  /\ pc' = IF pc = "p_first" THEN "p_second" ELSE "p_done"
  /\ UNCHANGED <<tl, out, script, run, exitCode, buildVars, indexHtml, platform, procVars,
                 portBusy, deployVars>>

NextPatch == PatchCall

SpecPatch == InitPatch /\ [][NextPatch]_vars

\* C18: a call on a platform other than win32 changes neither file; a second
\* call changes nothing the first has left; and the nested copy changes only in
\* a call on win32 that finds 'Utils.posix.dirname' in an existing root copy: a
\* call that finds the root copy without it leaves the nested copy as it is.
C18_PatchIdempotentAndScoped ==
  [][script = "patch" =>
       /\ (platform # "win32" => UNCHANGED <<rootParsers, nestedParsers>>)
       /\ (pc = "p_second" => UNCHANGED <<rootParsers, nestedParsers>>)
       /\ (nestedParsers' # nestedParsers =>
             /\ platform = "win32"
             /\ rootParsers.exists
             /\ {"dirThis", "dirOther"} \cap rootParsers.toks # {})
       /\ ((rootParsers.exists /\ {"dirThis", "dirOther"} \cap rootParsers.toks = {}) =>
             nestedParsers' = nestedParsers)
       /\ (rootParsers' # rootParsers =>
             /\ platform = "win32"
             /\ "dirThis" \notin rootParsers'.toks
             /\ "baseThis" \notin rootParsers'.toks)]_vars

C18_Witness ==
  /\ script = "patch" /\ pc = "p_done"
  /\ platform = "win32"
  /\ rootParsers = File({"dirOther", "pathDir", "pathBase"})
  /\ nestedParsers = File({"pathDir", "pathBase"})

====
